---- MODULE Spec2Model ----
(***************************************************************************)
(* SprayDryFS: the ingest pipeline (spraydry.py), the rehydrator           *)
(* (rehydrate.py) and the FUSE translation layer (fuse.py) over the        *)
(* SQLite schema of db.py.                                                 *)
(*                                                                         *)
(* Bytes are integers 0..255 and byte strings are sequences of them.       *)
(* A 32-bit unsigned word is a pair <<hi, lo>> of 16-bit halves.           *)
(***************************************************************************)
EXTENDS Integers, Sequences, FiniteSets, TLC

\* ------------------------------------------------------------------ bounds
\* longest file, in bytes, where a single regular file is ingested
MaxFileLen == 3
\* reads of it are requested with offset and size in 0..MaxRead
MaxRead == 4
\* most nodes (files, directories, others) of a source tree
MaxNodes == 3
\* longest regular file, in bytes, inside a source tree
MaxLeafLen == 1
\* most root() calls of one run
MaxRoots == 2
\* readdir is called with start_id in 0..MaxStart
MaxStart == 3
\* and a framework that takes up to MaxAccept entries of one call
MaxAccept == 2
\* chunkers are tried with size, min and max up to MaxParam
MaxParam == 2
\* spec strings carry hex values of up to MaxHexDigits digits
MaxHexDigits == 4

\* ------------------------------------------------------------- byte strings
Bytes == {0, 1}

RECURSIVE Concat(_)
Concat(ss) == IF ss = <<>> THEN <<>> ELSE Head(ss) \o Concat(Tail(ss))

\* Python slice s[lo:hi] for 0 <= lo, 0 <= hi (0-based, hi exclusive, clipped)
Slice(s, lo, hi) ==
    LET h == IF hi < Len(s) THEN hi ELSE Len(s)
    IN  IF lo >= h THEN <<>> ELSE SubSeq(s, lo + 1, h)

SetMax(S) == CHOOSE x \in S : \A y \in S : y <= x
Min2(a, b) == IF a < b THEN a ELSE b
Max2(a, b) == IF a > b THEN a ELSE b

\* byte-wise (memcmp) order of two byte strings
RECURSIVE BytesLess(_, _)
BytesLess(a, b) ==
    IF b = <<>> THEN FALSE
    ELSE IF a = <<>> THEN TRUE
    ELSE IF Head(a) # Head(b) THEN Head(a) < Head(b)
    ELSE BytesLess(Tail(a), Tail(b))

\* ------------------------------------------------------------------ hasher
\* name of the configured hash algorithm, as bytes ("b2")
HashName == <<98, 50>>

\* An ideal hash: the digest of a byte string determines the string.  The
\* length prefix keeps a digest self-delimiting inside a longer stream, as
\* the fixed width of a real digest does.
Digest(data) == <<Len(data)>> \o data

\* SprayDryStore.hash: name || '-' || digest
Hash(indata) == HashName \o <<45>> \o Digest(indata)

\* bytes(path) of an absolute path: '/' name '/' name ...
PathBytes(path) == <<47>> \o Concat([i \in 1..Len(path) |-> path[i] \o <<47>>])

\* the preliminary hash of SprayDryStore.tmpid: name || '_' || digest(path)
FakeHash(path) == HashName \o <<95>> \o Digest(PathBytes(path))

\* --------------------------------------------------------------- crc32
RECURSIVE Xor(_, _)
Xor(a, b) ==
    IF a = 0 THEN b
    ELSE IF b = 0 THEN a
    ELSE ((a + b) % 2) + 2 * Xor(a \div 2, b \div 2)

WXor(x, y) == <<Xor(x[1], y[1]), Xor(x[2], y[2])>>
WShr1(x) == <<x[1] \div 2, (x[1] % 2) * 32768 + x[2] \div 2>>
WShr8(x) == <<x[1] \div 256, (x[1] % 256) * 256 + x[2] \div 256>>
WLess(x, y) == x[1] < y[1] \/ (x[1] = y[1] /\ x[2] < y[2])

\* the reflected CRC-32 polynomial 0xEDB88320
Crc32Poly == <<60856, 33568>>

RECURSIVE Crc32Bits(_, _)
Crc32Bits(w, n) ==
    IF n = 0 THEN w
    ELSE Crc32Bits(IF w[2] % 2 = 1 THEN WXor(WShr1(w), Crc32Poly) ELSE WShr1(w), n - 1)

Crc32Table == [i \in 0..255 |-> Crc32Bits(<<0, i>>, 8)]

\* zlib.crc32(byte, value) for one byte
Crc32(byte, value) ==
    LET c == WXor(value, <<65535, 65535>>)
        t == Crc32Table[Xor(c[2] % 256, byte)]
    IN  WXor(WXor(t, WShr8(c)), <<65535, 65535>>)

\* ---------------------------------------------------------------- chunkers
\* mk_spray_fixed: range(0, len(indata), size)
RECURSIVE SprayFixedFrom(_, _, _)
SprayFixedFrom(indata, size, offset) ==
    IF offset >= Len(indata) THEN <<>>
    ELSE <<[offset |-> offset, chunk |-> Slice(indata, offset, offset + size)]>>
         \o SprayFixedFrom(indata, size, offset + size)

\* a fixed chunker whose slices are one byte longer than its step
mk_spray_fixed_wide(size, indata) == SprayFixedFrom(indata, size + 1, 0)

mk_spray_fixed(size, indata) == SprayFixedFrom(indata, size, 0)

\* the inner loop of the crc32 chunker: range(border, position, maximum)
RECURSIVE SprayInterior(_, _, _, _)
SprayInterior(indata, interior_border, position, maximum) ==
    IF interior_border >= position THEN <<>>
    ELSE LET next_border == Min2(position, interior_border + maximum)
         IN  <<[offset |-> interior_border,
                chunk |-> Slice(indata, interior_border, next_border)]>>
             \o SprayInterior(indata, interior_border + maximum, position, maximum)

\* the outer loop of the crc32 chunker, from 0-based position on
RECURSIVE SprayCrc32From(_, _, _, _, _)
SprayCrc32From(cfg, indata, position, border, rolling) ==
    IF position >= Len(indata)
    THEN LET last_chunk == Slice(indata, border, Len(indata))
         IN  IF last_chunk # <<>>
             THEN <<[offset |-> border, chunk |-> last_chunk]>>
             ELSE <<>>
    ELSE LET r == Crc32(indata[position + 1], rolling)
         IN  IF WLess(r, cfg.cutoff)
             THEN IF position - border < cfg.minimum
                  THEN SprayCrc32From(cfg, indata, position + 1, border, r)
                  ELSE SprayInterior(indata, border, position, cfg.maximum)
                       \o SprayCrc32From(cfg, indata, position + 1, position, r)
             ELSE SprayCrc32From(cfg, indata, position + 1, border, r)

mk_spray_crc32(cfg, indata) == SprayCrc32From(cfg, indata, 0, 0, cfg.initializer)

\* make_sprayer: dispatch on the algorithm name of the chunking spec
make_sprayer(conf, indata) ==
    IF conf.algorithm = "fixed" THEN mk_spray_fixed(conf.size, indata)
    ELSE mk_spray_crc32(conf, indata)

\* ------------------------------------------------------------- source tree
\* A source tree maps each path (a sequence of names below the ingest
\* directory) to what path.stat() and the file's bytes give.
Names == {<<97>>, <<98>>}
AllPaths == {<<>>} \cup {<<n>> : n \in Names} \cup {<<n, m>> : n \in Names, m \in Names}

\* st_mode values: a directory 0o40755, a regular file 0o100644, a FIFO 0o10644
ModeDir == 16877
ModeReg == 33188
ModeFifo == 4516

\* stat.S_ISDIR / stat.S_ISREG: the file type bits of st_mode
S_ISDIR(mode) == (mode \div 4096) % 16 = 4
S_ISREG(mode) == (mode \div 4096) % 16 = 8

RECURSIVE SeqsUpTo(_, _)
SeqsUpTo(S, n) ==
    IF n = 0 THEN {<<>>}
    ELSE LET shorter == SeqsUpTo(S, n - 1)
         IN  shorter \cup {Append(s, x) : s \in {t \in shorter : Len(t) = n - 1}, x \in S}

\* st_size: the length of a regular file; what the file system reports otherwise
RegularFiles(maxlen) ==
    {[mode |-> ModeReg, data |-> d, size |-> Len(d)] : d \in SeqsUpTo(Bytes, maxlen)}

NodeVals ==
    RegularFiles(MaxLeafLen)
    \cup {[mode |-> ModeDir, data |-> <<>>, size |-> 4096],
          [mode |-> ModeFifo, data |-> <<>>, size |-> 0]}

Parent(path) == SubSeq(path, 1, Len(path) - 1)

PathSets ==
    {P \in SUBSET AllPaths :
        /\ <<>> \in P
        /\ Cardinality(P) <= MaxNodes
        /\ \A p \in P : p # <<>> => Parent(p) \in P}

Trees ==
    UNION {{t \in [P -> NodeVals] :
                \A p \in P : p # <<>> => S_ISDIR(t[Parent(p)].mode)} : P \in PathSets}

\* the source trees that are one regular file
FileTrees == {[p \in {<<>>} |-> f] : f \in RegularFiles(MaxFileLen)}

\* sorted(path.iterdir()): the children of a directory in ascending order
Children(tree, path) ==
    SortSeq(
        LET C == {q \in DOMAIN tree : q # <<>> /\ Parent(q) = path}
            f == CHOOSE g \in [1..Cardinality(C) -> C] : \A i, j \in 1..Cardinality(C) : i # j => g[i] # g[j]
        IN  f,
        LAMBDA p, q : BytesLess(p[Len(p)], q[Len(q)]))

\* -------------------------------------------------------- rehydrate configs
\* rows of the rehydrate table the store can be opened with (all nocompress),
\* the chunking column parsed: "fixed size:0x02" and
\* "crc32 cutoff:0xa0000000 initializer:0xfacade00 max:0x01 min:0x02"
RehydrateTable ==
    {[id |-> 0, chunking |-> [algorithm |-> "fixed", size |-> 2]],
     [id |-> 1, chunking |-> [algorithm |-> "crc32", initializer |-> <<64202, 56832>>,
                              cutoff |-> <<40960, 0>>, minimum |-> 2, maximum |-> 1]]}

\* make_dryer / make_rehydrator_single for 'nocompress'
Dryer(chunk) == chunk

\* ------------------------------------------------------------------- tables
\* The six tables of db.py, and two records kept for the statement of the
\* properties only, which live and die with the transaction like the rows:
\* origin - for each File id a dry_file call returned, the bytes of its file;
\* src    - for each Root row, the path it was ingested from.
EmptyDb ==
    [file |-> {}, chunkhash |-> {}, chunk |-> {}, content |-> {}, entry |-> {}, root |-> {},
     origin |-> {}, src |-> {}]

\* INTEGER PRIMARY KEY without AUTOINCREMENT: one more than the largest rowid
NextId(rows) == IF rows = {} THEN 1 ELSE SetMax({r.id : r \in rows}) + 1

\* SAVEPOINT name
SqlSavepoint(stk, view, name) == Append(stk, [name |-> name, snap |-> view])

\* position of the most recent savepoint of that name, 0 if none
SpIndex(stk, name) ==
    IF \E i \in 1..Len(stk) : stk[i].name = name
    THEN SetMax({i \in 1..Len(stk) : stk[i].name = name})
    ELSE 0

\* a rollback that only releases the savepoint and keeps its rows
StoreRollback_keeps_rows(stk, view, name) ==
    LET i == SpIndex(stk, name)
    IN  [view |-> view, stk |-> SubSeq(stk, 1, i - 1)]

\* SprayDryStore.rollback: ROLLBACK TO name, then RELEASE name
StoreRollback(stk, view, name) ==
    LET i == SpIndex(stk, name)
    IN  [view |-> stk[i].snap, stk |-> SubSeq(stk, 1, i - 1)]

\* SprayDryStore.release: RELEASE name
StoreRelease(stk, view, name) ==
    LET i == SpIndex(stk, name)
    IN  [view |-> view, stk |-> SubSeq(stk, 1, i - 1)]

\* SprayDryStore.tmpid: INSERT OR IGNORE INTO file ... RETURNING id; id 0 stands
\* for the ValueError raised when the insert was ignored
tmpid(view, rehydrate, path) ==
    IF \E f \in view.file : f.hash = FakeHash(path) /\ f.rehydrate = rehydrate
    THEN [id |-> 0, view |-> view]
    ELSE LET id == NextId(view.file)
         IN  [id |-> id,
              view |-> [view EXCEPT !.file = @ \cup
                          {[id |-> id, hash |-> FakeHash(path), rehydrate |-> rehydrate]}]]

\* store_chunk with a plain INSERT: a row and a body for every call
store_chunk_plain_insert(view, rehydrate, chunk) ==
    LET chunkid == NextId(view.chunkhash)
    IN  [id |-> chunkid,
         view |-> [view EXCEPT
             !.chunkhash = @ \cup {[id |-> chunkid, rehydrate |-> rehydrate,
                                    size |-> Len(chunk), data |-> Hash(chunk)]},
             !.chunk = @ \cup {[id |-> chunkid, data |-> Dryer(chunk)]}]]

\* SprayDryStore.store_chunk
store_chunk(view, rehydrate, chunk) ==
    LET chunkhsh == Hash(chunk)
        existing == {h \in view.chunkhash : h.rehydrate = rehydrate /\ h.data = chunkhsh}
    IN  IF existing # {}
        THEN [id |-> (CHOOSE h \in existing : TRUE).id, view |-> view]
        ELSE LET chunkid == NextId(view.chunkhash)
             IN  [id |-> chunkid,
                  view |-> [view EXCEPT
                      !.chunkhash = @ \cup {[id |-> chunkid, rehydrate |-> rehydrate,
                                             size |-> Len(chunk), data |-> chunkhsh]},
                      !.chunk = @ \cup {[id |-> chunkid, data |-> Dryer(chunk)]}]]

\* store_content whose insert is ignored when the file already cites the chunk
store_content_key_chunk(view, fileid, offset, chunkid) ==
    LET new == {[file |-> fileid, rehydrate |-> h.rehydrate, offset |-> offset,
                 size |-> h.size, chunk |-> h.id] : h \in {g \in view.chunkhash : g.id = chunkid}}
        fresh == {c \in new : ~\E d \in view.content :
                        d.file = c.file /\ d.rehydrate = c.rehydrate /\ d.chunk = c.chunk}
    IN  [view EXCEPT !.content = @ \cup fresh]

\* SprayDryStore.store_content: INSERT OR IGNORE ... SELECT ... FROM chunkhash
store_content(view, fileid, offset, chunkid) ==
    LET new == {[file |-> fileid, rehydrate |-> h.rehydrate, offset |-> offset,
                 size |-> h.size, chunk |-> h.id] : h \in {g \in view.chunkhash : g.id = chunkid}}
        fresh == {c \in new : ~\E d \in view.content :
                        d.file = c.file /\ d.rehydrate = c.rehydrate /\ d.offset = c.offset}
    IN  [view EXCEPT !.content = @ \cup fresh]

\* make_modebytes: st_mode.to_bytes(2, 'little')
make_modebytes(mode) == <<mode % 256, mode \div 256>>

\* bytes.hex(): two lowercase ASCII hex digits per byte
HexDigit(n) == IF n < 10 THEN 48 + n ELSE 87 + n
Hex(bs) == Concat([i \in 1..Len(bs) |-> <<HexDigit(bs[i] \div 16), HexDigit(bs[i] % 16)>>])

\* a segment that leaves the child's mode out
EntrySegment_no_mode(entryhash, entrymodebytes, entryname) ==
    <<0>> \o entryhash \o Hex(entryname)

\* the segment a directory feeds into its hash for one child
EntrySegment(entryhash, entrymodebytes, entryname) ==
    <<0>> \o entryhash \o entrymodebytes \o Hex(entryname)

\* INSERT OR IGNORE INTO entry
InsertEntry(view, directory, name, mode, size, fileid) ==
    IF \E e \in view.entry : e.directory = directory /\ e.name = name
    THEN view
    ELSE [view EXCEPT !.entry = @ \cup
            {[id |-> NextId(view.entry), directory |-> directory, name |-> name,
              isdirectory |-> S_ISDIR(mode), mode |-> make_modebytes(mode),
              size |-> size, file |-> fileid]}]

\* -------------------------------------------------------------------- state
VARIABLES
    fs,        \* the source tree on disk
    store,     \* SprayDryStore: [rehydrate, sprayconf]
    db,        \* the committed tables, what a reader connection sees
    wdb,       \* the tables as the writer connection sees them
    txn,       \* the writer has a transaction open
    sp,        \* the writer's open savepoints, innermost last
    stack,     \* the active dry_file / dry_directory calls, innermost last
    pc,        \* where the writer is: idle, call, file, dirfin, ret, raise
    arg,       \* the path dry() is being called with
    ret,       \* what the last dry() call returned
    cur,       \* the root() call in progress
    nroots,    \* root() calls started
    pre,       \* the committed tables when the root() call in progress began
    chunkret,  \* what the last store_chunk call was given and returned
    mount,     \* SprayDryFS._root, the Entry of the mounted root
    reply      \* the outcome of the reader call in progress, until it returns

wvars == <<fs, store, db, wdb, txn, sp, stack, pc, arg, ret, cur, nroots, pre, chunkret>>
vars == <<fs, store, db, wdb, txn, sp, stack, pc, arg, ret, cur, nroots, pre, chunkret, mount, reply>>

RootNames == {"r"}
RootVersions == {"1", "2"}

NoRet == [fileid |-> 0, hash |-> <<>>, mode |-> 0, size |-> 0]
NoCall == [name |-> "", version |-> "", path |-> <<>>]
NoChunk == [chunk |-> <<>>, id |-> 0]
NoMount == [inode |-> 0, parent |-> 0, name |-> "", isdir |-> FALSE, mode |-> 0, size |-> 0, file |-> 0]
NoReply == [op |-> "none"]

InitWith(trees) ==
    /\ fs \in trees
    /\ \E r \in RehydrateTable : store = [rehydrate |-> r.id, sprayconf |-> r.chunking]
    /\ db = EmptyDb
    /\ wdb = EmptyDb
    /\ txn = FALSE
    /\ sp = <<>>
    /\ stack = <<>>
    /\ pc = "idle"
    /\ arg = <<>>
    /\ ret = NoRet
    /\ cur = NoCall
    /\ nroots = 0
    /\ pre = EmptyDb
    /\ chunkret = NoChunk
    /\ mount = NoMount
    /\ reply = NoReply

Init == InitWith(Trees)
InitFile == InitWith(FileTrees)

Top == stack[Len(stack)]
Pop == SubSeq(stack, 1, Len(stack) - 1)
SetTop(frame) == [stack EXCEPT ![Len(stack)] = frame]
Last(s) == s[Len(s)]

\* ------------------------------------------------------------------ writer
\* root() without the check for an existing (name, version)
RootBegin_no_check(name, version, path) ==
    /\ pc = "idle"
    /\ nroots < MaxRoots
    /\ path \in DOMAIN fs
    /\ nroots' = nroots + 1
    /\ chunkret' = NoChunk
    /\ txn' = TRUE
    /\ pre' = db
    /\ cur' = [name |-> name, version |-> version, path |-> path]
    /\ pc' = "call" /\ arg' = path
    /\ UNCHANGED <<fs, store, db, wdb, sp, stack, ret, mount, reply>>

\* SprayDryStore.root up to the call of dry(): BEGIN, then the duplicate check.
\* BEGIN inside an open transaction raises before the try block is entered.
RootBegin(name, version, path) ==
    /\ pc = "idle"
    /\ nroots < MaxRoots
    /\ path \in DOMAIN fs
    /\ nroots' = nroots + 1
    /\ chunkret' = NoChunk
    /\ IF txn
       THEN UNCHANGED <<txn, pre, cur, pc, arg>>
       ELSE /\ txn' = TRUE
            /\ pre' = db
            /\ cur' = [name |-> name, version |-> version, path |-> path]
            /\ IF \E r \in wdb.root : r.name = name /\ r.version = version
               THEN pc' = "raise" /\ arg' = <<>>
               ELSE pc' = "call" /\ arg' = path
    /\ UNCHANGED <<fs, store, db, wdb, sp, stack, ret, mount, reply>>

\* SprayDryStore.dry on anything but a directory or a regular file
DryUnsupported ==
    /\ pc = "call"
    /\ ~S_ISDIR(fs[arg].mode) /\ ~S_ISREG(fs[arg].mode)
    /\ pc' = "raise"
    /\ UNCHANGED <<reply, fs, store, db, wdb, txn, sp, stack, arg, ret, cur, nroots, pre, chunkret, mount>>

\* dry_file up to the chunk loop: savepoint, tmpid, open and mmap
DryFileEnter ==
    /\ pc = "call"
    /\ S_ISREG(fs[arg].mode)
    /\ LET t == tmpid(wdb, store.rehydrate, arg)
           chunks == make_sprayer(store.sprayconf, fs[arg].data)
       IN  /\ sp' = SqlSavepoint(sp, wdb, arg)
           /\ wdb' = t.view
           /\ stack' = Append(stack, [path |-> arg, fileid |-> t.id, hashobj |-> <<>>,
                                      todo |-> IF t.id = 0 THEN <<>> ELSE chunks])
           \* tmpid raises when its insert is ignored; mmap raises on an empty file
           /\ pc' = IF t.id = 0 \/ fs[arg].data = <<>> THEN "raise" ELSE "file"
    /\ UNCHANGED <<reply, fs, store, db, txn, arg, ret, cur, nroots, pre, chunkret, mount>>

\* one round of the chunk loop of dry_file
DryFileChunk ==
    /\ pc = "file"
    /\ Top.todo # <<>>
    /\ LET c == Head(Top.todo)
           r == store_chunk(wdb, store.rehydrate, c.chunk)
       IN  /\ wdb' = store_content(r.view, Top.fileid, c.offset, r.id)
           /\ chunkret' = [chunk |-> c.chunk, id |-> r.id]
           /\ stack' = SetTop([Top EXCEPT !.hashobj = @ \o c.chunk, !.todo = Tail(@)])
    /\ UNCHANGED <<reply, fs, store, db, txn, sp, pc, arg, ret, cur, nroots, pre, mount>>

\* the end of dry_file and dry_directory without the duplicate check
Finish_no_duplicate_check(view, stk, rehydrate, frame, stat) ==
    LET filehash == Hash(frame.hashobj)
        updated == [view EXCEPT !.file =
                       {IF f.id = frame.fileid THEN [f EXCEPT !.hash = filehash] ELSE f : f \in @}]
        r == StoreRelease(stk, updated, frame.path)
    IN  [view |-> r.view, stk |-> r.stk,
         ret |-> [fileid |-> frame.fileid, hash |-> filehash,
                  mode |-> stat.mode, size |-> stat.size]]

\* the end of dry_file and of dry_directory: final hash, duplicate check,
\* rollback or update and release, return
Finish(view, stk, rehydrate, frame, stat) ==
    LET filehash == Hash(frame.hashobj)
        existing == {f \in view.file : f.hash = filehash /\ f.rehydrate = rehydrate}
    IN  IF existing # {}
        THEN LET r == StoreRollback(stk, view, frame.path)
             IN  [view |-> r.view, stk |-> r.stk,
                  ret |-> [fileid |-> (CHOOSE f \in existing : TRUE).id, hash |-> filehash,
                           mode |-> stat.mode, size |-> stat.size]]
        ELSE LET updated == [view EXCEPT !.file =
                                {IF f.id = frame.fileid THEN [f EXCEPT !.hash = filehash] ELSE f : f \in @}]
                 r == StoreRelease(stk, updated, frame.path)
             IN  [view |-> r.view, stk |-> r.stk,
                  ret |-> [fileid |-> frame.fileid, hash |-> filehash,
                           mode |-> stat.mode, size |-> stat.size]]

DryFileFinish ==
    /\ pc = "file"
    /\ Top.todo = <<>>
    /\ LET r == Finish(wdb, sp, store.rehydrate, Top, fs[Top.path])
       IN  /\ wdb' = [r.view EXCEPT !.origin = @ \cup
                        {[file |-> r.ret.fileid, data |-> fs[Top.path].data]}]
           /\ sp' = r.stk
           /\ ret' = r.ret
    /\ stack' = Pop
    /\ pc' = "ret"
    /\ UNCHANGED <<reply, fs, store, db, txn, arg, cur, nroots, pre, chunkret, mount>>

\* dry_directory up to its loop: savepoint, tmpid, sorted(path.iterdir())
DryDirectoryEnter ==
    /\ pc = "call"
    /\ S_ISDIR(fs[arg].mode)
    /\ LET t == tmpid(wdb, store.rehydrate, arg)
           todo == Children(fs, arg)
       IN  /\ sp' = SqlSavepoint(sp, wdb, arg)
           /\ wdb' = t.view
           /\ stack' = Append(stack, [path |-> arg, fileid |-> t.id, hashobj |-> <<>>,
                                      todo |-> IF t.id = 0 THEN <<>> ELSE todo])
           /\ IF t.id = 0 THEN pc' = "raise" /\ arg' = arg
              ELSE IF todo = <<>> THEN pc' = "dirfin" /\ arg' = arg
              ELSE pc' = "call" /\ arg' = Head(todo)
    /\ UNCHANGED <<reply, fs, store, db, txn, ret, cur, nroots, pre, chunkret, mount>>

\* the rest of one round of the loop of dry_directory, after dry(entry)
\* returned: hash update, entry insert, next child
DirEntry ==
    /\ pc = "ret"
    /\ stack # <<>>
    /\ LET entry == Head(Top.todo)
           entryname == Last(entry)
           entrymodebytes == make_modebytes(ret.mode)
           entrysegment == EntrySegment(ret.hash, entrymodebytes, entryname)
           rest == Tail(Top.todo)
       IN  /\ wdb' = InsertEntry(wdb, Top.fileid, entryname, ret.mode, ret.size, ret.fileid)
           /\ stack' = SetTop([Top EXCEPT !.hashobj = @ \o entrysegment, !.todo = rest])
           /\ IF rest = <<>> THEN pc' = "dirfin" /\ arg' = arg
              ELSE pc' = "call" /\ arg' = Head(rest)
    /\ UNCHANGED <<reply, fs, store, db, txn, sp, ret, cur, nroots, pre, chunkret, mount>>

DryDirectoryFinish ==
    /\ pc = "dirfin"
    /\ LET r == Finish(wdb, sp, store.rehydrate, Top, fs[Top.path])
       IN  /\ wdb' = r.view
           /\ sp' = r.stk
           /\ ret' = r.ret
    /\ stack' = Pop
    /\ pc' = "ret"
    /\ UNCHANGED <<reply, fs, store, db, txn, arg, cur, nroots, pre, chunkret, mount>>

\* INSERT INTO root
InsertRoot(view, name, version, mode, size, fileid) ==
    [view EXCEPT !.root = @ \cup
        {[id |-> NextId(view.root), name |-> name, version |-> version,
          isdirectory |-> S_ISDIR(mode), mode |-> make_modebytes(mode),
          size |-> size, file |-> fileid]}]

\* SprayDryStore.root after dry() returned: insert the root row, COMMIT
RootCommit ==
    /\ pc = "ret"
    /\ stack = <<>>
    /\ LET rooted == InsertRoot(wdb, cur.name, cur.version, ret.mode, ret.size, ret.fileid)
           final == [rooted EXCEPT !.src = @ \cup {[root |-> NextId(wdb.root), path |-> cur.path]}]
       IN  /\ db' = final
           /\ wdb' = final
    /\ txn' = FALSE
    /\ sp' = <<>>
    /\ pc' = "idle"
    /\ cur' = NoCall
    /\ ret' = NoRet
    /\ arg' = <<>>
    /\ UNCHANGED <<reply, fs, store, stack, nroots, pre, chunkret, mount>>

\* an exception leaves the innermost dry_file / dry_directory call: neither
\* has a handler, so the call ends and its savepoint stays as it is
Unwind ==
    /\ pc = "raise"
    /\ stack # <<>>
    /\ stack' = Pop
    /\ UNCHANGED <<reply, fs, store, db, wdb, txn, sp, pc, arg, ret, cur, nroots, pre, chunkret, mount>>

\* root() whose finally block does not roll back
RootRollback_missing ==
    /\ pc = "raise"
    /\ stack = <<>>
    /\ pc' = "idle"
    /\ cur' = NoCall
    /\ ret' = NoRet
    /\ arg' = <<>>
    /\ UNCHANGED <<reply, fs, store, db, wdb, txn, sp, stack, nroots, pre, chunkret, mount>>

\* the finally block of SprayDryStore.root when not committed: ROLLBACK
RootRollback ==
    /\ pc = "raise"
    /\ stack = <<>>
    /\ wdb' = db
    /\ txn' = FALSE
    /\ sp' = <<>>
    /\ pc' = "idle"
    /\ cur' = NoCall
    /\ ret' = NoRet
    /\ arg' = <<>>
    /\ UNCHANGED <<reply, fs, store, db, stack, nroots, pre, chunkret, mount>>

Writer ==
    \/ \E name \in RootNames, version \in RootVersions, path \in AllPaths :
           RootBegin(name, version, path)
    \/ DryUnsupported
    \/ DryFileEnter
    \/ DryFileChunk
    \/ DryFileFinish
    \/ DryDirectoryEnter
    \/ DirEntry
    \/ DryDirectoryFinish
    \/ RootCommit
    \/ Unwind
    \/ RootRollback

\* ------------------------------------------------------------------ reader
\* Entry.__post_init__: int.from_bytes(mode, 'little')
ModeInt(modebytes) == modebytes[1] + 256 * modebytes[2]

\* the Entry dataclass built from an entry row
EntryOf(row) ==
    [inode |-> row.id, parent |-> row.directory, name |-> row.name, isdir |-> row.isdirectory,
     mode |-> ModeInt(row.mode), size |-> row.size, file |-> row.file]

\* Rehydrator.root; inode -1 stands for None
RehydratorRoot(view, name, version) ==
    {[inode |-> -1, parent |-> -1, name |-> name, isdir |-> r.isdirectory,
      mode |-> ModeInt(r.mode), size |-> r.size, file |-> r.file] :
        r \in {q \in view.root : q.name = name /\ q.version = version}}

\* Rehydrator.attributes: the entries with that id (none or one)
RehydratorAttributes(view, entryid) == {EntryOf(e) : e \in {q \in view.entry : q.id = entryid}}

\* Rehydrator.entry: the entries of that directory File with that name
RehydratorEntry(view, dirid, name) ==
    {EntryOf(e) : e \in {q \in view.entry : q.directory = dirid /\ q.name = name}}

\* the decoder of a nocompress config: the recorded size must be the length
Rehydrate(chunksize, chunkdata) ==
    [ok |-> chunksize = Len(chunkdata), data |-> chunkdata]

\* the rows of the query of preadgen: content joined with chunk, in the window
PreadRows(view, fileid, offset, size) ==
    {[data |-> x[2].data, offset |-> x[1].offset, size |-> x[1].size] :
        x \in {y \in view.content \X view.chunk :
                 /\ y[1].chunk = y[2].id
                 /\ y[1].file = fileid
                 /\ offset < y[1].offset + y[1].size
                 /\ y[1].offset < offset + size}}

\* ORDER BY co.offset
RECURSIVE OrderByOffset(_)
OrderByOffset(rows) ==
    IF rows = {} THEN <<>>
    ELSE LET first == CHOOSE r \in rows : \A q \in rows : r.offset <= q.offset
         IN  <<first>> \o OrderByOffset(rows \ {first})

\* preadgen that yields every selected chunk whole
PreadYield_whole(row, offset, size) ==
    LET chunk == Rehydrate(row.size, row.data)
    IN  [ok |-> chunk.ok, data |-> chunk.data]

\* what preadgen yields for one row
PreadYield(row, offset, size) ==
    LET end == offset + size
        chunk == Rehydrate(row.size, row.data)
    IN  [ok |-> chunk.ok,
         data |-> IF offset < row.offset /\ row.offset + row.size < end
                  THEN chunk.data
                  ELSE Slice(chunk.data, Max2(offset - row.offset, 0),
                             Min2(end - row.offset, row.size))]

\* Rehydrator.preadgen: the sequence of yields
preadgen(view, fileid, offset, size) ==
    LET rows == OrderByOffset(PreadRows(view, fileid, offset, size))
    IN  [i \in 1..Len(rows) |-> PreadYield(rows[i], offset, size)]

\* Rehydrator.pread: b''.join(preadgen(...)), or the decoder's error
pread(view, fileid, offset, size) ==
    LET gen == preadgen(view, fileid, offset, size)
    IN  IF \E i \in 1..Len(gen) : ~gen[i].ok
        THEN [status |-> "RuntimeError", data |-> <<>>]
        ELSE [status |-> "ok", data |-> Concat([i \in 1..Len(gen) |-> gen[i].data])]

\* a pread that reads the tables as the writer connection sees them
PRead_uncommitted(fileid, offset, size) ==
    /\ reply' = [op |-> "pread", fileid |-> fileid, offset |-> offset, size |-> size,
                 result |-> pread(wdb, fileid, offset, size)]
    /\ UNCHANGED <<wvars, mount>>

\* a call of Rehydrator.pread on the reader connection
PRead(fileid, offset, size) ==
    /\ reply' = [op |-> "pread", fileid |-> fileid, offset |-> offset, size |-> size,
                 result |-> pread(db, fileid, offset, size)]
    /\ UNCHANGED <<wvars, mount>>

\* -------------------------------------------------------------------- FUSE
\* pyfuse3.ROOT_INODE, also SprayDryFS._inode_offset
ROOT_INODE == 1

NoAttrs == [st_mode |-> 0, st_size |-> 0, st_ino |-> 0]

\* SprayDryFS.__init__: load the root, fail if there is none
Mount(name, version) ==
    /\ mount = NoMount
    /\ \E e \in RehydratorRoot(db, name, version) : mount' = e
    /\ UNCHANGED <<wvars, reply>>

\* SprayDryFS._mkattrs
mkattrs(inentry) ==
    [st_mode |-> inentry.mode, st_size |-> inentry.size,
     st_ino |-> IF inentry.inode = -1 THEN ROOT_INODE ELSE inentry.inode + ROOT_INODE]

\* SprayDryFS.lookup
lookup(view, root, parent_inode, name) ==
    LET found == IF parent_inode = ROOT_INODE
                 THEN RehydratorEntry(view, root.file, name)
                 ELSE RehydratorEntry(view, parent_inode - ROOT_INODE, name)
    IN  IF found = {}
        THEN [status |-> "ENOENT", attrs |-> NoAttrs]
        ELSE [status |-> "ok", attrs |-> mkattrs(CHOOSE e \in found : TRUE)]

FuseLookup(parent_inode, name) ==
    /\ mount # NoMount
    /\ reply' = [op |-> "lookup", parent |-> parent_inode, name |-> name,
                 result |-> lookup(db, mount, parent_inode, name)]
    /\ UNCHANGED <<wvars, mount>>

\* SprayDryFS.read: Rehydrator has no attribute pread_entry
read(view, root, fh, off, size) ==
    IF fh = ROOT_INODE
    THEN pread(view, root.file, off, size)
    ELSE [status |-> "AttributeError", data |-> <<>>]

FuseRead(fh, off, size) ==
    /\ mount # NoMount
    /\ reply' = [op |-> "read", fh |-> fh, offset |-> off, size |-> size,
                 result |-> read(db, mount, fh, off, size)]
    /\ UNCHANGED <<wvars, mount>>

\* ORDER BY name: blobs compare bytewise
RECURSIVE OrderByName(_)
OrderByName(rows) ==
    IF rows = {} THEN <<>>
    ELSE LET first == CHOOSE r \in rows : \A q \in rows : q = r \/ BytesLess(r.name, q.name)
         IN  <<first>> \o OrderByName(rows \ {first})

\* Rehydrator.listgen: ROW_NUMBER() OVER (ORDER BY name) of the entries of the
\* directory, then the rows with rownum > offset
listgen(view, dirid, offset) ==
    LET rows == OrderByName({e \in view.entry : e.directory = dirid})
        numbered == [i \in 1..Len(rows) |-> [rownum |-> i, entry |-> EntryOf(rows[i])]]
    IN  SelectSeq(numbered, LAMBDA r : r.rownum > offset)

\* SprayDryFS.opendir
opendir(view, root, inode) ==
    LET found == IF inode = ROOT_INODE THEN {root}
                 ELSE RehydratorAttributes(view, inode - ROOT_INODE)
    IN  IF found = {} \/ ~(CHOOSE e \in found : TRUE).isdir
        THEN [status |-> "ENOENT", fh |-> 0]
        ELSE [status |-> "ok", fh |-> inode]

FuseOpendir(inode) ==
    /\ mount # NoMount
    /\ reply' = [op |-> "opendir", inode |-> inode, result |-> opendir(db, mount, inode)]
    /\ UNCHANGED <<wvars, mount>>

\* SprayDryFS.readdir; accept is the number of entries readdir_reply takes
\* before it refuses one. For fh # ROOT the first statement reads
\* self._offset, an attribute SprayDryFS does not have.
readdir(view, root, fh, start_id, accept) ==
    IF fh = ROOT_INODE
    THEN LET gen == listgen(view, root.file, start_id)
         IN  [status |-> "ok",
              entries |-> [i \in 1..Min2(accept, Len(gen)) |->
                              [name |-> gen[i].entry.name, attrs |-> mkattrs(gen[i].entry),
                               next_id |-> gen[i].rownum]]]
    ELSE [status |-> "AttributeError", entries |-> <<>>]

FuseReaddir(fh, start_id, accept) ==
    /\ mount # NoMount
    /\ reply' = [op |-> "readdir", fh |-> fh, start_id |-> start_id, accept |-> accept,
                 result |-> readdir(db, mount, fh, start_id, accept)]
    /\ UNCHANGED <<wvars, mount>>

\* SprayDryFS.getattr; queries counts the statements sent to the store. The
\* branch for a missing entry calls logger.warn, and the module has no name
\* logger.
getattr(view, root, inode) ==
    IF inode = ROOT_INODE
    THEN [status |-> "ok", attrs |-> mkattrs(root), queries |-> 0]
    ELSE LET found == RehydratorAttributes(view, inode - ROOT_INODE)
         IN  IF found = {}
             THEN [status |-> "NameError", attrs |-> NoAttrs, queries |-> 1]
             ELSE [status |-> "ok", attrs |-> mkattrs(CHOOSE e \in found : TRUE), queries |-> 1]

FuseGetattr(inode) ==
    /\ mount # NoMount
    /\ reply' = [op |-> "getattr", inode |-> inode, result |-> getattr(db, mount, inode)]
    /\ UNCHANGED <<wvars, mount>>

\* os.O_RDONLY, os.O_WRONLY, os.O_RDWR
O_RDONLY == 0
O_WRONLY == 1
O_RDWR == 2

\* flags & bit, for a bit that is a power of two
FlagSet(flags, bit) == (flags \div bit) % 2 = 1

\* SprayDryFS.open
open(view, root, inode, flags) ==
    IF FlagSet(flags, O_RDWR) \/ FlagSet(flags, O_WRONLY)
    THEN [status |-> "EACCES", fh |-> 0, queries |-> 0]
    ELSE LET attr == getattr(view, root, inode)
         IN  IF attr.status = "ok"
             THEN [status |-> "ok", fh |-> inode, queries |-> attr.queries]
             ELSE [status |-> attr.status, fh |-> 0, queries |-> attr.queries]

FuseOpen(inode, flags) ==
    /\ mount # NoMount
    /\ reply' = [op |-> "open", inode |-> inode, flags |-> flags,
                 result |-> open(db, mount, inode, flags)]
    /\ UNCHANGED <<wvars, mount>>

\* the reader call returns to its caller
Return ==
    /\ reply # NoReply
    /\ reply' = NoReply
    /\ UNCHANGED <<wvars, mount>>

\* the arguments reader calls are tried with: every id in use and one that is not
FileIds == {f.id : f \in db.file} \cup {NextId(db.file)}
Inodes == {ROOT_INODE} \cup {e.id + ROOT_INODE : e \in db.entry} \cup {NextId(db.entry) + ROOT_INODE}

Reader ==
    \E fileid \in FileIds, offset \in 0..MaxRead, size \in 0..MaxRead :
        PRead(fileid, offset, size)

Fuse ==
    \/ \E name \in RootNames, version \in RootVersions : Mount(name, version)
    \/ \E parent_inode \in Inodes, name \in Names : FuseLookup(parent_inode, name)
    \/ \E fh \in Inodes, off \in 0..(MaxLeafLen + 1), size \in 0..(MaxLeafLen + 1) :
           FuseRead(fh, off, size)

\* source trees ingested by root() calls, a FUSE mount reading
Next ==
    \/ reply = NoReply /\ Writer
    \/ reply = NoReply /\ pc = "idle" /\ Fuse
    \/ Return

Spec == Init /\ [][Next]_vars

\* Damage to the store file from outside the program, between root() calls:
\* the body row of a chunk is lost
DropChunk(id) ==
    /\ pc = "idle"
    /\ \E c \in db.chunk :
        /\ c.id = id
        /\ db' = [db EXCEPT !.chunk = @ \ {c}]
        /\ wdb' = [wdb EXCEPT !.chunk = @ \ {c}]
    /\ UNCHANGED <<fs, store, txn, sp, stack, pc, arg, ret, cur, nroots, pre, chunkret, mount, reply>>

\* the body of a chunk loses its last byte, the recorded size stays
TruncateChunk(id) ==
    /\ pc = "idle"
    /\ \E c \in db.chunk :
        /\ c.id = id
        /\ c.data # <<>>
        /\ LET short == [c EXCEPT !.data = SubSeq(@, 1, Len(@) - 1)]
           IN  /\ db' = [db EXCEPT !.chunk = (@ \ {c}) \cup {short}]
               /\ wdb' = [wdb EXCEPT !.chunk = (@ \ {c}) \cup {short}]
    /\ UNCHANGED <<fs, store, txn, sp, stack, pc, arg, ret, cur, nroots, pre, chunkret, mount, reply>>

ChunkIds == {c.id : c \in db.chunk}

\* the chunking specs the chunkers are tried with: fixed(size), and crc32
\* with initializer 0xfacade00 or 0, cutoff 0x80000000, 0xa0000000 or
\* 0xd0000000, min and max
SprayConfs ==
    {[algorithm |-> "fixed", size |-> n] : n \in 1..MaxParam}
    \cup {[algorithm |-> "crc32", initializer |-> i, cutoff |-> c, minimum |-> m, maximum |-> x] :
            i \in {<<64202, 56832>>, <<0, 0>>},
            c \in {<<32768, 0>>, <<40960, 0>>, <<53248, 0>>},
            m \in 0..MaxParam, x \in 1..MaxParam}

\* a buffer and a chunker made by make_sprayer
InitSpray ==
    /\ fs \in FileTrees
    /\ \E c \in SprayConfs : store = [rehydrate |-> 0, sprayconf |-> c]
    /\ db = EmptyDb /\ wdb = EmptyDb /\ txn = FALSE /\ sp = <<>> /\ stack = <<>>
    /\ pc = "idle" /\ arg = <<>> /\ ret = NoRet /\ cur = NoCall /\ nroots = 0
    /\ pre = EmptyDb /\ chunkret = NoChunk /\ mount = NoMount /\ reply = NoReply

\* the chunker runs over the buffer: list(self._sprayer(mm))
Spray ==
    /\ reply = NoReply
    /\ reply' = [op |-> "spray", result |-> make_sprayer(store.sprayconf, fs[<<>>].data)]
    /\ UNCHANGED <<wvars, mount>>

NextSpray ==
    \/ Spray
    \/ Return

SpecSpray == InitSpray /\ [][NextSpray]_vars

\* ------------------------------------------------------------ spec strings
\* A str is a sequence of one-character strings.  The characters that occur,
\* in code point order, which is the order Python compares and sorts str by.
Alphabet ==
    <<" ", "0", "1", "2", "3", "4", "5", "6", "7", "8", "9", ":",
      "a", "b", "c", "d", "e", "f", "g", "h", "i", "j", "k", "l", "m",
      "n", "o", "p", "q", "r", "s", "t", "u", "v", "w", "x", "y", "z">>

CodePoint(c) == CHOOSE i \in 1..Len(Alphabet) : Alphabet[i] = c

RECURSIVE StrLess(_, _)
StrLess(a, b) ==
    IF b = <<>> THEN FALSE
    ELSE IF a = <<>> THEN TRUE
    ELSE IF Head(a) # Head(b) THEN CodePoint(Head(a)) < CodePoint(Head(b))
    ELSE StrLess(Tail(a), Tail(b))

\* str.split(sep) for a one-character sep: empty fields are kept
RECURSIVE SplitOn(_, _)
SplitOn(str, sep) ==
    IF \E i \in 1..Len(str) : str[i] = sep
    THEN LET i == CHOOSE k \in 1..Len(str) : str[k] = sep /\ \A j \in 1..(k - 1) : str[j] # sep
         IN  <<SubSeq(str, 1, i - 1)>> \o SplitOn(SubSeq(str, i + 1, Len(str)), sep)
    ELSE <<str>>

\* str.strip().split(): the fields between runs of blanks, none of them empty
SplitBlank(str) == SelectSeq(SplitOn(str, " "), LAMBDA f : f # <<>>)

HexDigits == {"0", "1", "2", "3", "4", "5", "6", "7", "8", "9", "a", "b", "c", "d", "e", "f"}

\* An int is kept as the digits hex() prints for it: no leading zero, "0" for 0
RECURSIVE StripZeros(_)
StripZeros(digits) ==
    IF Len(digits) > 1 /\ Head(digits) = "0" THEN StripZeros(Tail(digits)) ELSE digits

StartsWith0x(v) == Len(v) >= 2 /\ v[1] = "0" /\ v[2] = "x"

\* the value of one key:value token in algosplit:
\* int(v, 16) if v.startswith('0x') else v
ParseValue(v) ==
    IF StartsWith0x(v)
    THEN LET digits == SubSeq(v, 3, Len(v))
         IN  IF digits # <<>> /\ \A i \in 1..Len(digits) : digits[i] \in HexDigits
             THEN [status |-> "ok", isint |-> TRUE, v |-> StripZeros(digits)]
             ELSE [status |-> "ValueError", isint |-> FALSE, v |-> <<>>]
    ELSE [status |-> "ok", isint |-> FALSE, v |-> v]

NoAlgo == [name |-> <<>>, params |-> <<>>]

\* algosplit: a parsed config is [name, params], params a function from the
\* keys to values [isint, v]; of two tokens of one key the later one stays
algosplit(instr) ==
    LET parts == SplitBlank(instr)
        fields == [i \in 1..(Len(parts) - 1) |-> SplitOn(parts[i + 1], ":")]
    IN  IF parts = <<>> THEN [status |-> "IndexError", algo |-> NoAlgo]
        ELSE IF \E i \in 1..Len(fields) : Len(fields[i]) # 2
        THEN [status |-> "ValueError", algo |-> NoAlgo]
        ELSE IF \E i \in 1..Len(fields) : ParseValue(fields[i][2]).status # "ok"
        THEN [status |-> "ValueError", algo |-> NoAlgo]
        ELSE LET keys == {fields[i][1] : i \in 1..Len(fields)}
                 last(k) == CHOOSE i \in 1..Len(fields) :
                                /\ fields[i][1] = k
                                /\ \A j \in (i + 1)..Len(fields) : fields[j][1] # k
             IN  [status |-> "ok",
                  algo |-> [name |-> parts[1],
                            params |-> [k \in keys |->
                                          [isint |-> ParseValue(fields[last(k)][2]).isint,
                                           v |-> ParseValue(fields[last(k)][2]).v]]]]

\* mkhex: str(inval) for a str, else hex(inval) padded to an even length
mkhex(inval) ==
    IF ~inval.isint THEN inval.v
    ELSE LET res == <<"0", "x">> \o inval.v
         IN  IF Len(res) % 2 = 1 THEN SubSeq(res, 1, 2) \o <<"0">> \o SubSeq(res, 3, Len(res))
             ELSE res

\* sorted(algo[1].items()): the keys in ascending order
RECURSIVE SortedKeys(_)
SortedKeys(keys) ==
    IF keys = {} THEN <<>>
    ELSE LET first == CHOOSE k \in keys : \A q \in keys : q = k \/ StrLess(k, q)
         IN  <<first>> \o SortedKeys(keys \ {first})

\* algojoin
algojoin(algo) ==
    LET keys == SortedKeys(DOMAIN algo.params)
    IN  algo.name \o Concat([i \in 1..Len(keys) |->
                                <<" ">> \o keys[i] \o <<":">> \o mkhex(algo.params[keys[i]])])

\* the chunking column of the two seeded rehydrate rows
SeededFixed == <<"f", "i", "x", "e", "d", " ", "s", "i", "z", "e", ":", "0", "x", "2", "0", "0", "0">>
SeededCrc32 == <<"c", "r", "c", "3", "2", " ", "c", "u", "t", "o", "f", "f", ":", "0", "x", "0", "0", "0", "a", "0", "0", "0", "0", " ", "i", "n", "i", "t", "i", "a", "l", "i", "z", "e", "r", ":", "0", "x", "f", "a", "c", "a", "d", "e", "0", "0", " ", "m", "a", "x", ":", "0", "x", "4", "0", "0", "0", " ", "m", "i", "n", ":", "0", "x", "0", "8", "0", "0">>

AlgoNames == {<<"f", "i", "x", "e", "d">>, <<"c", "r", "c", "3", "2">>}
AlgoKeys == {<<"m", "a", "x">>, <<"m", "i", "n">>}
SpecDigits == {"0", "a"}

\* 0x and an even number of lowercase hex digits
HexValues ==
    {<<"0", "x">> \o d : d \in {e \in SeqsUpTo(SpecDigits, MaxHexDigits) :
                                  Len(e) > 0 /\ Len(e) % 2 = 0}}

\* spec strings in canonical form: a name, then key:value tokens in ascending
\* order of key
CanonicalStrings ==
    {SeededFixed, SeededCrc32}
    \cup {Concat(<<n>> \o [i \in 1..Cardinality(DOMAIN val) |->
                            <<" ">> \o SortedKeys(DOMAIN val)[i] \o <<":">>
                                   \o val[SortedKeys(DOMAIN val)[i]]]) :
            n \in AlgoNames, val \in UNION {[K -> HexValues] : K \in SUBSET AlgoKeys}}

\* parsed values: non-negative ints, and a str that is not a number
ParsedValues ==
    {[isint |-> TRUE, v |-> StripZeros(d)] :
        d \in {e \in SeqsUpTo(SpecDigits, MaxHexDigits) : Len(e) > 0}}
    \cup {[isint |-> FALSE, v |-> <<"f", "a", "s", "t">>]}

ParsedConfigs ==
    {[name |-> n, params |-> ps] :
        n \in AlgoNames, ps \in UNION {[K -> ParsedValues] : K \in SUBSET AlgoKeys}}

\* a rehydrate row's chunking text, or a sprayconf given to SprayDryStore
InitAlgo ==
    /\ store \in {[rehydrate |-> 0, chunking |-> str] : str \in CanonicalStrings}
                 \cup {[rehydrate |-> 0, sprayconf |-> a] : a \in ParsedConfigs}
    /\ fs = [q \in {<<>>} |-> [mode |-> ModeDir, data |-> <<>>, size |-> 4096]]
    /\ db = EmptyDb /\ wdb = EmptyDb /\ txn = FALSE /\ sp = <<>> /\ stack = <<>>
    /\ pc = "idle" /\ arg = <<>> /\ ret = NoRet /\ cur = NoCall /\ nroots = 0
    /\ pre = EmptyDb /\ chunkret = NoChunk /\ mount = NoMount /\ reply = NoReply

\* algojoin(algosplit(chunking))
SplitJoin ==
    /\ reply = NoReply
    /\ "chunking" \in DOMAIN store
    /\ LET a == algosplit(store.chunking)
       IN  reply' = [op |-> "splitjoin", status |-> a.status,
                     result |-> IF a.status = "ok" THEN algojoin(a.algo) ELSE <<>>]
    /\ UNCHANGED <<wvars, mount>>

\* algosplit(algojoin(sprayconf))
JoinSplit ==
    /\ reply = NoReply
    /\ "sprayconf" \in DOMAIN store
    /\ LET a == algosplit(algojoin(store.sprayconf))
       IN  reply' = [op |-> "joinsplit", status |-> a.status, result |-> a.algo]
    /\ UNCHANGED <<wvars, mount>>

NextAlgo ==
    \/ SplitJoin
    \/ JoinSplit
    \/ Return

SpecAlgo == InitAlgo /\ [][NextAlgo]_vars

\* A listing read in several calls of Rehydrator.listgen, as readdir does it.
\* The first call: reply keeps the directory, the listing as it is now, and
\* the rows taken so far.
ListStart(dirid) ==
    /\ reply = NoReply
    /\ reply' = [op |-> "list", dir |-> dirid,
                 committed |-> \E f \in db.file : f.id = dirid,
                 full |-> listgen(db, dirid, 0), got |-> <<>>]
    /\ UNCHANGED <<wvars, mount>>

\* one more call, resumed after the last row number taken; the caller takes
\* up to accept rows of it
ListPage(accept) ==
    /\ reply.op = "list"
    /\ LET start == IF reply.got = <<>> THEN 0 ELSE Last(reply.got).rownum
           gen == listgen(db, reply.dir, start)
       IN  /\ gen # <<>>
           /\ reply' = [reply EXCEPT !.got = @ \o SubSeq(gen, 1, Min2(accept, Len(gen)))]
    /\ UNCHANGED <<wvars, mount>>

\* source trees ingested by root() calls while a reader on its own
\* connection reads: each reader call is one statement over the committed
\* tables, and the writer runs between the calls
NextConc ==
    \/ Writer
    \/ reply = NoReply /\ \E fileid \in FileIds, offset \in 0..(MaxLeafLen + 1),
                             size \in 0..(MaxLeafLen + 1) : PRead(fileid, offset, size)
    \/ \E dirid \in FileIds : ListStart(dirid)
    \/ \E accept \in 1..MaxAccept : ListPage(accept)
    \/ Return

SpecConc == Init /\ [][NextConc]_vars

\* the directory and attribute operations of the mount
FuseDir ==
    \/ \E name \in RootNames, version \in RootVersions : Mount(name, version)
    \/ \E inode \in Inodes : FuseOpendir(inode)
    \/ \E fh \in Inodes, start_id \in 0..MaxStart, accept \in 0..MaxAccept :
           FuseReaddir(fh, start_id, accept)
    \/ \E inode \in Inodes : FuseGetattr(inode)
    \/ \E inode \in Inodes, flags \in {O_RDONLY, O_WRONLY, O_RDWR} : FuseOpen(inode, flags)

\* source trees ingested by root() calls, a FUSE mount listing and opening
NextDir ==
    \/ reply = NoReply /\ Writer
    \/ reply = NoReply /\ pc = "idle" /\ FuseDir
    \/ Return

SpecDir == Init /\ [][NextDir]_vars

\* single regular files ingested by root() calls, a Rehydrator reading
NextFile ==
    \/ reply = NoReply /\ \E name \in RootNames, version \in RootVersions :
                              RootBegin(name, version, <<>>)
    \/ reply = NoReply /\ DryFileEnter
    \/ reply = NoReply /\ DryFileChunk
    \/ reply = NoReply /\ DryFileFinish
    \/ reply = NoReply /\ RootCommit
    \/ reply = NoReply /\ Unwind
    \/ reply = NoReply /\ RootRollback
    \/ reply = NoReply /\ pc = "idle" /\ Reader
    \/ Return

SpecFile == InitFile /\ [][NextFile]_vars

\* single regular files ingested by root() calls, a store that takes damage,
\* a Rehydrator reading
NextDamage ==
    \/ NextFile
    \/ reply = NoReply /\ \E id \in ChunkIds : DropChunk(id)
    \/ reply = NoReply /\ \E id \in ChunkIds : TruncateChunk(id)

SpecDamage == InitFile /\ [][NextDamage]_vars

\* ------------------------------------------------------------ properties
\* original[offset : min(offset + size, N)]
ExpectedRead(data, offset, size) ==
    LET hi == Min2(offset + size, Len(data))
    IN  [i \in 1..Max2(hi - offset, 0) |-> data[offset + i]]

ContentOf(view, fileid) == {c \in view.content : c.file = fileid}

\* C1: every regular file of any length, the empty file included, is ingested
\* by dry_file (the call returns a File id instead of raising), and a read of
\* any window inside it returns exactly the original bytes of that window.
C1_RoundTripAnyLength ==
    /\ ~(pc = "raise" /\ stack # <<>> /\ S_ISREG(fs[Top.path].mode))
    /\ reply.op = "pread" =>
         \A o \in db.origin :
            (o.file = reply.fileid /\ reply.offset + reply.size <= Len(o.data)) =>
                reply.result = [status |-> "ok",
                                data |-> ExpectedRead(o.data, reply.offset, reply.size)]

\* C2: a pread of an ingested file of size N with any offset and size returns
\* original[offset : min(offset + size, N)] and never an error: nothing at or
\* past the end, N - offset bytes when the window runs over the end.
C2_ReadTruncatedAtEnd ==
    reply.op = "pread" =>
        \A o \in db.origin :
            o.file = reply.fileid =>
                reply.result = [status |-> "ok",
                                data |-> ExpectedRead(o.data, reply.offset, reply.size)]

\* a read that starts inside a file of two chunks and runs over its end
C2_Witness ==
    /\ reply.op = "pread"
    /\ \E o \in db.origin :
        /\ o.file = reply.fileid
        /\ Cardinality(ContentOf(db, o.file)) >= 2
        /\ 0 < reply.offset /\ reply.offset < Len(o.data)
        /\ Len(o.data) < reply.offset + reply.size
        /\ Len(reply.result.data) = Len(o.data) - reply.offset

\* the root() call in progress ingests a path a committed Root came from
Reingest == pc # "idle" /\ \E s \in db.src : s.path = cur.path

GraphTables(view) == <<view.file, view.chunkhash, view.chunk, view.content, view.entry>>

\* C3: while root() re-ingests an unchanged tree that a committed Root came
\* from, every dry_file and dry_directory call returns the id and hash of a
\* File that was there before the call, and the commit leaves File, ChunkHash,
\* Chunk, Content and Entry as they were and adds exactly one Root row, which
\* points at the File of the earlier Root.
C3_ReingestIdempotent ==
    [][/\ (Reingest /\ pc \in {"file", "dirfin"} /\ pc' = "ret") =>
            \E f \in db.file : f.id = ret'.fileid /\ f.hash = ret'.hash
       /\ (Reingest /\ pc = "ret" /\ pc' = "idle") =>
            /\ GraphTables(db') = GraphTables(db)
            /\ \E r \in db'.root :
                /\ r \notin db.root
                /\ db'.root = db.root \cup {r}
                /\ \E q \in db.root, s \in db.src :
                      s.root = q.id /\ s.path = cur.path /\ q.file = r.file]_vars

\* two committed Roots of one directory with a child share their File
C3_Witness ==
    /\ pc = "idle"
    /\ \E r1, r2 \in db.root, s1, s2 \in db.src :
        /\ r1.id # r2.id /\ s1.root = r1.id /\ s2.root = r2.id /\ s1.path = s2.path
        /\ r1.file = r2.file /\ r1.isdirectory
        /\ \E e \in db.entry : e.directory = r1.file

\* at most one ChunkHash row per (rehydrate, hash), bodies 1:1 with the rows
ChunksUnique(view) ==
    /\ \A g, h \in view.chunkhash : (g.rehydrate = h.rehydrate /\ g.data = h.data) => g = h
    /\ \A h \in view.chunkhash : Cardinality({c \in view.chunk : c.id = h.id}) = 1
    /\ \A c \in view.chunk : \E h \in view.chunkhash : h.id = c.id /\ h.data = Hash(c.data)

\* C4: whatever store_chunk calls, releases and rollbacks have happened, there
\* is at most one ChunkHash row per (rehydrate, chunk hash) and it has exactly
\* one Chunk body of the same id; a store_chunk call returns the id of the row
\* of its bytes, and when that row was already there it returns the same id
\* and leaves ChunkHash and Chunk as they were.
C4_ChunkDedup ==
    [][/\ ChunksUnique(wdb') /\ ChunksUnique(db')
       /\ (pc = "file" /\ pc' = "file" /\ stack' # stack) =>
            /\ \E h \in wdb'.chunkhash :
                /\ h.rehydrate = store.rehydrate /\ h.data = Hash(chunkret'.chunk)
                /\ h.id = chunkret'.id
            /\ \A h \in wdb.chunkhash :
                (h.rehydrate = store.rehydrate /\ h.data = Hash(chunkret'.chunk)) =>
                    /\ chunkret'.id = h.id
                    /\ wdb'.chunkhash = wdb.chunkhash
                    /\ wdb'.chunk = wdb.chunk]_vars

\* store_chunk has just returned the id of a chunk another File already cites
C4_Witness ==
    /\ pc = "file" /\ Top.hashobj # <<>>
    /\ \E c \in wdb.content : c.chunk = chunkret.id /\ c.file # Top.fileid
    /\ \E h \in db.chunkhash : h.id = chunkret.id /\ h.data = Hash(chunkret.chunk)

\* the rows, in offset order, start at 0, abut, and end at size
Cover(rows, size) ==
    LET s == OrderByOffset(rows)
    IN  IF size = 0 THEN rows = {}
        ELSE /\ rows # {}
             /\ s[1].offset = 0
             /\ \A i \in 1..(Len(s) - 1) : s[i].offset + s[i].size = s[i + 1].offset
             /\ s[Len(s)].offset + s[Len(s)].size = size

\* C5: in every committed state, the Content rows of every File that dry_file
\* produced cover the ingested file exactly: the first starts at 0, each ends
\* where the next starts, the last ends at the file's size.
C5_ContentCover ==
    \A o \in db.origin : Cover(ContentOf(db, o.file), Len(o.data))

\* a committed File of at least two Content rows, after a failed root() call
C5_Witness ==
    /\ pc = "idle" /\ nroots = MaxRoots /\ db = pre /\ db # EmptyDb
    /\ \E o \in db.origin : Cardinality(ContentOf(db, o.file)) >= 2

\* the root() call in progress names a Root that is already there
DuplicateRoot == \E r \in db.root : r.name = cur.name /\ r.version = cur.version

\* C6: root(name, version, path) with a (name, version) that already has a Root
\* row raises before anything is ingested (no dry call, no write) and exits
\* with every table as it was; and no step of any run changes or deletes a
\* committed Root row.
C6_DuplicateRootRejected ==
    [][/\ \A r \in db.root : r \in db'.root
       /\ (pc = "idle" /\ pc' # "idle" /\ \E r \in db.root :
                                r.name = cur'.name /\ r.version = cur'.version) =>
            /\ pc' = "raise" /\ stack' = <<>> /\ sp' = <<>>
            /\ wdb' = db /\ db' = db
       /\ (pc = "raise" /\ pc' = "idle" /\ DuplicateRoot) =>
            /\ db' = db /\ wdb' = db /\ db' = pre]_vars

\* the duplicate check of root() has just raised
C6_Witness ==
    /\ pc = "raise" /\ stack = <<>> /\ sp = <<>> /\ DuplicateRoot
    /\ wdb = db /\ txn

\* C7: when root() exits on an error raised at any depth, the tables are what
\* they were before the call, and no transaction and no savepoint is open, so
\* the next root() call can BEGIN.
C7_FailedIngestNoTrace ==
    [][/\ (pc = "raise" /\ pc' = "idle") =>
            /\ db' = pre /\ wdb' = pre
            /\ ~txn' /\ sp' = <<>> /\ stack' = <<>>
       /\ pc' = "idle" => (~txn' /\ sp' = <<>> /\ wdb' = db')]_vars

\* root() has exited after a call that stored a chunk, and the chunk is gone
C7_Witness ==
    /\ pc = "idle" /\ ~txn /\ sp = <<>> /\ db = pre
    /\ chunkret # NoChunk
    /\ ~\E h \in db.chunkhash : h.data = Hash(chunkret.chunk)
    /\ nroots < MaxRoots

\* C8: the open savepoints are at every moment exactly those of the dry_file
\* and dry_directory calls in progress, innermost last: a call that has
\* ended, by return or by error, has released or rolled back its savepoint.
C8_SavepointDiscipline ==
    /\ Len(sp) = Len(stack)
    /\ \A i \in 1..Len(sp) : sp[i].name = stack[i].path

\* C9: read(fh, off, size) returns pread(root.file, off, size) for fh = ROOT
\* and, for any other handle whose entry exists, pread of the File that the
\* entry fh - inode_offset points to.
C9_ReadThroughEntry ==
    reply.op = "read" =>
        IF reply.fh = ROOT_INODE
        THEN reply.result = pread(db, mount.file, reply.offset, reply.size)
        ELSE \A e \in db.entry :
                e.id = reply.fh - ROOT_INODE =>
                    reply.result = pread(db, e.file, reply.offset, reply.size)

\* the File ids the parent inode stands for: the Root's, or its entry's
ParentFiles(parent_inode) ==
    IF parent_inode = ROOT_INODE THEN {mount.file}
    ELSE {e.file : e \in {q \in db.entry : q.id = parent_inode - ROOT_INODE}}

\* C10: lookup(parent_ino, name) on an existing parent returns the attributes
\* of the Entry whose directory is the File the parent points to and whose
\* name is the given one, and ENOENT if there is none.
C10_LookupThroughParentFile ==
    (reply.op = "lookup" /\ ParentFiles(reply.parent) # {}) =>
        LET found == {e \in db.entry : e.directory \in ParentFiles(reply.parent)
                                       /\ e.name = reply.name}
        IN  IF found = {}
            THEN reply.result.status = "ENOENT"
            ELSE /\ reply.result.status = "ok"
                 /\ \E e \in found : reply.result.attrs = mkattrs(EntryOf(e))

\* the directory File a handle returned by opendir stands for: the Root's
\* file, or the file column of the entry fh - inode_offset
HandleDir(fh) ==
    IF fh = ROOT_INODE THEN {mount.file}
    ELSE {e.file : e \in {q \in db.entry : q.id = fh - ROOT_INODE /\ q.isdirectory}}

\* what readdir hands to the framework for one row of listgen
Handed(row) == [name |-> row.entry.name, attrs |-> mkattrs(row.entry), next_id |-> row.rownum]

\* C11: readdir(fh, start_id, token) on the Root handle or on the handle of an
\* existing directory entry completes without error and hands the framework
\* the rows of listgen(dir_file_id, start_id), in order, as (name, attrs,
\* row_number), up to the first one the framework refuses, where dir_file_id
\* is the Root's file or the file column of the entry fh - inode_offset.
C11_ReaddirNonRoot ==
    reply.op = "readdir" =>
        \A d \in HandleDir(reply.fh) :
            LET gen == listgen(db, d, reply.start_id)
            IN  reply.result =
                    [status |-> "ok",
                     entries |-> [i \in 1..Min2(reply.accept, Len(gen)) |-> Handed(gen[i])]]

\* C12: getattr(ROOT) returns the attributes of the selected Root with
\* st_ino = ROOT; getattr(ino) for another inode returns the attributes of the
\* Entry ino - inode_offset with st_ino = ino, and fails with ENOENT when
\* there is no such Entry.
C12_GetattrEnoent ==
    reply.op = "getattr" =>
        IF reply.inode = ROOT_INODE
        THEN /\ reply.result.status = "ok"
             /\ reply.result.attrs.st_ino = ROOT_INODE
             /\ \E r \in db.root :
                  /\ r.name = mount.name /\ r.file = mount.file
                  /\ reply.result.attrs.st_mode = ModeInt(r.mode)
                  /\ reply.result.attrs.st_size = r.size
        ELSE LET found == {e \in db.entry : e.id = reply.inode - ROOT_INODE}
             IN  IF found = {}
                 THEN reply.result.status = "ENOENT"
                 ELSE /\ reply.result.status = "ok"
                      /\ reply.result.attrs.st_ino = reply.inode
                      /\ \E e \in found :
                           /\ reply.result.attrs.st_mode = ModeInt(e.mode)
                           /\ reply.result.attrs.st_size = e.size

\* the Files that an entry or a Root marks as a directory
DirFileIds(view) ==
    {e.file : e \in {q \in view.entry : q.isdirectory}}
    \cup {r.file : r \in {q \in view.root : q.isdirectory}}

\* listgen(dir, 0) is the full listing, ascending by name, numbered 1..n, and
\* listgen(dir, k) is what is left of it after row k
ListgenPaginates(view) ==
    \A d \in DirFileIds(view) :
        LET full == listgen(view, d, 0)
            n == Len(full)
        IN  /\ n = Cardinality({e \in view.entry : e.directory = d})
            /\ {full[i].entry : i \in 1..n} = {EntryOf(e) : e \in {q \in view.entry : q.directory = d}}
            /\ \A i \in 1..n : full[i].rownum = i
            /\ \A i, j \in 1..n : i < j => BytesLess(full[i].entry.name, full[j].entry.name)
            /\ \A k \in 0..MaxStart : listgen(view, d, k) = SubSeq(full, k + 1, n)

\* C13: for every directory File, listgen(dir, 0) yields all its entries in
\* ascending order of name bytes with row numbers 1..n, and listgen(dir, k)
\* yields the rows after row k with the same numbers; and a readdir page on
\* any directory handle, started at start_id, is the next rows of the full
\* listing after row start_id, each handed out with its row number, so that
\* pages resumed at the last number handed out add up to the full listing.
C13_ListingPagination ==
    /\ ListgenPaginates(db)
    /\ reply.op = "readdir" =>
        \A d \in HandleDir(reply.fh) :
            LET full == listgen(db, d, 0)
                page == reply.result.entries
            IN  /\ reply.result.status = "ok"
                /\ Len(page) = Min2(reply.accept, Max2(Len(full) - reply.start_id, 0))
                /\ \A i \in 1..Len(page) : page[i] = Handed(full[reply.start_id + i])

\* C14: open(ino, flags) with O_WRONLY or O_RDWR set fails with EACCES for
\* every inode, existing or not, without a query to the store; with read-only
\* flags it returns the handle ino when the inode exists and fails with
\* ENOENT when it does not.
C14_OpenReadOnly ==
    reply.op = "open" =>
        IF FlagSet(reply.flags, O_WRONLY) \/ FlagSet(reply.flags, O_RDWR)
        THEN reply.result.status = "EACCES" /\ reply.result.queries = 0
        ELSE IF reply.inode = ROOT_INODE \/ \E e \in db.entry : e.id = reply.inode - ROOT_INODE
             THEN reply.result.status = "ok" /\ reply.result.fh = reply.inode
             ELSE reply.result.status = "ENOENT"

\* the byte range of the Content row and the window [offset, offset + size)
\* have a byte in common
Intersects(c, offset, size) ==
    Max2(offset, c.offset) < Min2(offset + size, c.offset + c.size)

\* the body of the chunk of the Content row is missing, or decodes to a
\* length that is not the recorded size
Damaged(view, c) ==
    ~\E ch \in view.chunk : ch.id = c.chunk /\ Len(ch.data) = c.size

\* C15: a pread whose window intersects a Content row whose chunk body is
\* missing or decodes to a length other than the recorded size fails with an
\* error and returns no bytes; a pread whose window intersects only intact
\* chunks returns the bytes of the ingested file as if nothing were damaged.
C15_ReadIntegrity ==
    reply.op = "pread" =>
        \A o \in db.origin : o.file = reply.fileid =>
            IF \E c \in ContentOf(db, o.file) :
                   Intersects(c, reply.offset, reply.size) /\ Damaged(db, c)
            THEN reply.result.status # "ok" /\ reply.result.data = <<>>
            ELSE reply.result = [status |-> "ok",
                                 data |-> ExpectedRead(o.data, reply.offset, reply.size)]

\* the hash of a node of the source tree, from the tree alone: of a regular
\* file the hash of its bytes, of a directory the hash of the stream of
\* 0x00 || child hash || child mode, 2 bytes little-endian || hex of the child
\* name, over the children in ascending order of name
RECURSIVE TreeHash(_, _)
TreeHash(tree, path) ==
    IF S_ISDIR(tree[path].mode)
    THEN LET kids == Children(tree, path)
         IN  Hash(Concat([i \in 1..Len(kids) |->
                 <<0>> \o TreeHash(tree, kids[i])
                       \o <<tree[kids[i]].mode % 256, tree[kids[i]].mode \div 256>>
                       \o Hex(Last(kids[i]))]))
    ELSE Hash(tree[path].data)

\* C16: when dry_directory returns, the hash it returns is the hash of the
\* stream of segments 0x00 || child hash || child mode (2 bytes little-endian)
\* || lowercase hex of the child name over the children in ascending order of
\* name, a function of that sequence alone; the File id it returns is the id
\* of the one File row of that hash under the store's rehydrate config, and
\* when a row of that hash was there before the call (another directory of
\* the same sequence), it is the id of that row.
C16_DirectoryHash ==
    [][(pc = "dirfin" /\ pc' = "ret") =>
          /\ ret'.hash = TreeHash(fs, Top.path)
          /\ \E f \in wdb'.file :
                f.id = ret'.fileid /\ f.hash = ret'.hash /\ f.rehydrate = store.rehydrate
          /\ \A f \in wdb'.file :
                (f.hash = ret'.hash /\ f.rehydrate = store.rehydrate) => f.id = ret'.fileid
          /\ \A f \in wdb.file :
                (f.hash = ret'.hash /\ f.rehydrate = store.rehydrate) => f.id = ret'.fileid]_vars

\* dry_directory has returned, for a child directory, the File id that the
\* entry of a sibling of another name already points to
C16_Witness ==
    /\ pc = "ret" /\ stack # <<>> /\ S_ISDIR(ret.mode)
    /\ Top.todo # <<>>
    /\ ret.hash = TreeHash(fs, Head(Top.todo))
    /\ \E e \in wdb.entry :
        /\ e.directory = Top.fileid /\ e.isdirectory
        /\ e.name # Last(Head(Top.todo))
        /\ e.file = ret.fileid

\* C17: every chunk the crc32 chunker yields, the trailing chunk included, is
\* at most max bytes long, for every input and every parameter set.
C17_Crc32HardMaximum ==
    (reply.op = "spray" /\ store.sprayconf.algorithm = "crc32") =>
        \A i \in 1..Len(reply.result) :
            Len(reply.result[i].chunk) <= store.sprayconf.maximum

\* C19: the pairs a chunker yields partition its input: the first offset is
\* 0, every offset is the sum of the lengths of the chunks before it, no
\* chunk is empty, the chunks concatenated in yield order are the input, and
\* an empty input yields nothing; the k-th pair of fixed(S) is
\* (k*S, input[k*S : k*S+S]), so all its chunks but the last have S bytes.
C19_ChunkersPartition ==
    reply.op = "spray" =>
        LET indata == fs[<<>>].data
            out == reply.result
        IN  /\ \A i \in 1..Len(out) :
                  /\ out[i].chunk # <<>>
                  /\ out[i].offset = Len(Concat([j \in 1..(i - 1) |-> out[j].chunk]))
            /\ Concat([i \in 1..Len(out) |-> out[i].chunk]) = indata
            /\ indata = <<>> => out = <<>>
            /\ store.sprayconf.algorithm = "fixed" =>
                  LET S == store.sprayconf.size
                  IN  /\ \A i \in 1..Len(out) :
                            /\ out[i].offset = (i - 1) * S
                            /\ out[i].chunk = [n \in 1..Min2(S, Len(indata) - (i - 1) * S) |->
                                                  indata[(i - 1) * S + n]]
                      /\ \A i \in 1..(Len(out) - 1) : Len(out[i].chunk) = S

\* the crc32 chunker has cut a buffer into a chunk of two bytes and another
C19_Witness ==
    /\ reply.op = "spray" /\ store.sprayconf.algorithm = "crc32"
    /\ Len(reply.result) = 2
    /\ Len(reply.result[1].chunk) = 2
    /\ reply.result[2].offset = 2

\* C20: preadgen selects a Content row of the file if and only if its byte
\* range and the window [offset, offset + size) have a byte in common (so a
\* request of size 0 selects nothing), visits the selected rows in ascending
\* order of offset, and yields for each the non-empty slice
\* decoded[max(offset - co.offset, 0) : min(offset + size - co.offset, co.size)].
C20_MinimalReadPlan ==
    reply.op = "pread" =>
        LET rows == PreadRows(db, reply.fileid, reply.offset, reply.size)
            gen == preadgen(db, reply.fileid, reply.offset, reply.size)
            plan == OrderByOffset({c \in ContentOf(db, reply.fileid) :
                                      Intersects(c, reply.offset, reply.size)})
        IN  /\ \A c \in ContentOf(db, reply.fileid) :
                  (\E r \in rows : r.offset = c.offset /\ r.size = c.size)
                      <=> Intersects(c, reply.offset, reply.size)
            /\ Len(gen) = Len(plan)
            /\ \A i \in 1..Len(gen) :
                  /\ gen[i].ok /\ gen[i].data # <<>>
                  /\ \E ch \in db.chunk :
                        /\ ch.id = plan[i].chunk
                        /\ gen[i].data = Slice(ch.data, Max2(reply.offset - plan[i].offset, 0),
                                               Min2(reply.offset + reply.size - plan[i].offset,
                                                    plan[i].size))

\* C18: for every spec string in canonical form (a name, then key:value tokens
\* in ascending order of key, integer values as 0x and an even number of
\* lowercase hex digits; the two seeded chunking strings are of this form),
\* algojoin(algosplit(s)) = s; and for every parsed config a with
\* non-negative integer or non-numeric string values, algosplit(algojoin(a)) = a.
C18_SpecStringRoundTrip ==
    /\ reply.op = "splitjoin" => (reply.status = "ok" /\ reply.result = store.chunking)
    /\ reply.op = "joinsplit" => (reply.status = "ok" /\ reply.result = store.sprayconf)

\* the byte after the hash name: '_' in a preliminary hash, '-' in a final one
Separator(hash) == IF Len(hash) > Len(HashName) THEN hash[Len(HashName) + 1] ELSE 0
IsPreliminary(hash) == Separator(hash) = 95
IsFinal(hash) == Separator(hash) = 45

\* the File ids that Root, Entry and Content rows refer to
ReferencedFiles(view) ==
    {r.file : r \in view.root} \cup {e.file : e \in view.entry}
    \cup {e.directory : e \in view.entry} \cup {c.file : c \in view.content}

\* no preliminary File row, and every File a row refers to is there, final
NoPreliminary(view) ==
    /\ \A f \in view.file : ~IsPreliminary(f.hash)
    /\ \A id \in ReferencedFiles(view) : \E f \in view.file : f.id = id /\ IsFinal(f.hash)

RowsOf(view, fileid) ==
    [content |-> ContentOf(view, fileid),
     bodies |-> {ch \in view.chunk : \E c \in ContentOf(view, fileid) : c.chunk = ch.id},
     entries |-> {e \in view.entry : e.directory = fileid}]

\* C22: with reader calls and the steps of root() calls interleaved in any
\* order, no step changes the File row, the Content rows (and chunk bodies) or
\* the Entry rows of a committed File; while a root() call is in progress and
\* after it failed the committed tables are what they were when it began, and
\* a pread sees exactly them; and a listing of a committed directory read in
\* several listgen calls, with writer steps and commits in between, is page by
\* page the listing as it was at the first call.
C22_CommittedStable ==
    [][/\ \A f \in db.file : f \in db'.file /\ RowsOf(db', f.id) = RowsOf(db, f.id)
       /\ pc' # "idle" => db' = pre'
       /\ (pc = "raise" /\ pc' = "idle") => db' = pre
       /\ (reply' # reply /\ reply'.op = "pread" /\ pc # "idle") =>
            reply'.result = pread(pre, reply'.fileid, reply'.offset, reply'.size)
       /\ (reply'.op = "list" /\ reply'.committed) =>
            /\ listgen(db', reply'.dir, 0) = reply'.full
            /\ reply'.got = SubSeq(reply'.full, 1, Len(reply'.got))]_vars

\* half of the listing of a committed directory has been read, and a root()
\* call in progress has written entries that are not committed
C22_Witness ==
    /\ reply.op = "list" /\ reply.committed
    /\ Len(reply.got) = 1 /\ Len(reply.full) = 2
    /\ pc # "idle" /\ wdb.entry # db.entry /\ wdb.content # db.content

====
